---------------------------- MODULE Spec2Model ----------------------------
(***************************************************************************)
(* State-machine model of calculate_token_economics and of the sidebar     *)
(* controls that feed it (src/apt_token_dashboard.py).                     *)
(*                                                                         *)
(* Number representation.  The program computes in Python floats; TLC has  *)
(* 32-bit integers only, so every quantity is held in fixed point and      *)
(* every Python "/" is the floor division \div on the scaled operands:     *)
(*   tokens     in thousands of APT            (TOTAL_SUPPLY = 100000)     *)
(*   dollars    in hundreds of USD             (FUNDING_AMOUNT = 100000)   *)
(*   fractions  in 1/One                       (0.08 is 800, 1.0 is One)   *)
(*   prices     in (USD unit / token unit) / One, i.e. 1e-5 USD per APT    *)
(*   capacity   in kW (the code's own "MW * 1000")                         *)
(* The units are chosen so that the largest product the code forms         *)
(* (k_constant = circulating_supply * mm_usdc_balance) stays below 2^31.   *)
(***************************************************************************)
EXTENDS Integers, Sequences, FiniteSets

\* ---------------------------------------------------------------- constants

\* The float 1.0 (lines 157, 189): the fixed-point unit of every fraction.
One == 10000

TOTAL_SUPPLY == 100000
FUNDING_AMOUNT == 100000
MARKET_MAKER_ALLOCATION == 1000
DEV_ALLOCATION == 1000
SOLAR_COST_PER_MW == 7000
\* 0.17 USD per kWh = 0.0017 dollar units per kWh = 17/One.
KWH_PRICE == 17
HOURS_PER_DAY == 4
DAYS_PER_YEAR == 365
DEPLOYMENT_MONTHS == 10
\* months = 48 (line 75)
months == 48
\* The 0.8 of line 62, the 36 of lines 106-107, the 2_500_000 of line 113,
\* the 0.08 of line 192, the factor 2 of line 189.
DeflatorCeiling == 8000
DevUnlockMonth == 36
MmUsdcSeed == 25000
YieldThreshold == 800
YieldFactor == 2

\* liquid_stake_pct=None, the default of the parameter and the value passed
\* in Yield-Based mode (lines 57, 226).
None == -1

Manual == "Manual Control"
Auto == "Yield-Based Auto Staking"

\* ------------------------------------------------------------------ bounds

\* The investor-allocation slider offers 0..80 percent in steps of 1; the
\* model takes the MaxLowAlloc+1 lowest and the MaxHighAlloc+1 highest
\* settings and the slider's default.
MaxLowAlloc == 3
MaxHighAlloc == 3
\* The manual-stake slider offers 0..100 percent in steps of 5; the model
\* takes the MaxLowStake+1 lowest settings, the default and the maximum.
MaxLowStake == 2

\* ------------------------------------------------------------------ inputs

AllocSliderMax == 80
AllocSliderDefault == 40
StakeSliderStep == 5
StakeSliderDefault == 50
StakeSliderMax == 100
DurationSliderSteps == 10

Min(a, b) == IF a <= b THEN a ELSE b

\* investor_allocation = slider / 100 (lines 25-29), as a fraction of One.
InvestorAllocations ==
    { p * (One \div 100) :
        p \in {q \in 0..AllocSliderMax :
                  \/ q <= MaxLowAlloc
                  \/ q >= AllocSliderMax - MaxHighAlloc
                  \/ q = AllocSliderDefault} }

\* investor_stake_duration: 0.5 .. 5.0 years in steps of 0.5 (lines 31-35).
StakeDurations == { h * (One \div 2) : h \in 1..DurationSliderSteps }

\* liquid_stake_pct = slider / 100 (lines 37-42), as a fraction of One.
LiquidStakePcts ==
    { p * (One \div 100) :
        p \in {q \in 0..StakeSliderMax :
                  /\ q % StakeSliderStep = 0
                  /\ \/ q <= MaxLowStake * StakeSliderStep
                     \/ q = StakeSliderDefault
                     \/ q = StakeSliderMax} }


\* ------------------------------------------------------- float arithmetic

\* a / b where the quotient is a fraction or a price: in units of 1/One.
Ratio(a, b) == (a * One) \div b

\* x * f where f is a fraction in units of 1/One.
Scale(x, f) == (x * f) \div One

\* --------------------------------------------- calculate_token_economics

\* mm_tokens = TOTAL_SUPPLY * MARKET_MAKER_ALLOCATION (line 63)
mm_tokens == Scale(TOTAL_SUPPLY, MARKET_MAKER_ALLOCATION)

\* solar_capacity_mw * 1000 (lines 70-71), in kW
solar_capacity_kw == (FUNDING_AMOUNT * 1000) \div SOLAR_COST_PER_MW

annual_kwh == solar_capacity_kw * HOURS_PER_DAY * DAYS_PER_YEAR

annual_revenue_usd == Scale(annual_kwh, KWH_PRICE)

\* Lines 86-96: the deployment ramp and the month's revenue in USD.
MonthlyRevenueUsd(month) ==
    LET current_annual_revenue ==
            IF month < DEPLOYMENT_MONTHS
            THEN Scale(annual_revenue_usd, Ratio(month + 1, DEPLOYMENT_MONTHS))
            ELSE annual_revenue_usd
    IN  current_annual_revenue \div 12

\* Lines 99-100: the guard of the investor unlock.
\* Variant of the guard with a strict comparison (unlock one month late).
InvestorUnlockFiresBug(month, stake_duration, staked_tokens) ==
    month * One > stake_duration * 12 /\ staked_tokens > 0

InvestorUnlockFires(month, stake_duration, staked_tokens) ==
    month * One >= stake_duration * 12 /\ staked_tokens > 0

\* Lines 106-107: the guard of the dev unlock.
\* Variant of the guard that misses month 36 and fires from month 37 on.
DevUnlockFiresBug(month) == month > DevUnlockMonth

DevUnlockFires(month) == month >= DevUnlockMonth /\ month = DevUnlockMonth

\* Line 124: the swap executes.
SwapExecutes(monthly_revenue_usd) == monthly_revenue_usd > 0 /\ mm_tokens > 0

\* Line 139: the price after the swap.
\* Variant that divides by the post-swap token reserve.
PostSwapPriceBug(mm_usdc_balance, circulating_supply, current_price) ==
    IF mm_tokens > 0 THEN Ratio(mm_usdc_balance, circulating_supply)
    ELSE current_price

PostSwapPrice(mm_usdc_balance, circulating_supply, current_price) ==
    IF mm_tokens > 0 THEN Ratio(mm_usdc_balance, mm_tokens) ELSE current_price

\* Line 145
StakeWeight(staked_tokens) ==
    IF TOTAL_SUPPLY > 0 THEN Ratio(staked_tokens, TOTAL_SUPPLY) ELSE 0

\* Lines 151-167: revenue_apt_to_burn in the three staking branches.
\* Variant with the results of the first two branches exchanged.
RevenueAptToBurnBug(monthly_revenue_apt, staked_tokens, stake_weight, staker_alloc) ==
    IF staked_tokens = 0 THEN 0
    ELSE IF stake_weight >= One THEN monthly_revenue_apt
    ELSE monthly_revenue_apt - staker_alloc

RevenueAptToBurn(monthly_revenue_apt, staked_tokens, stake_weight, staker_alloc) ==
    IF staked_tokens = 0 THEN monthly_revenue_apt
    ELSE IF stake_weight >= One THEN 0
    ELSE monthly_revenue_apt - staker_alloc

\* Lines 151-167: deflator_matching_burn in the three staking branches.
\* Variant that forgets the min() cap when tokens are staked.
DeflatorMatchingBurnBug(monthly_revenue_apt, deflator_balance, staked_tokens, stake_weight) ==
    IF staked_tokens = 0 THEN Min(monthly_revenue_apt, deflator_balance)
    ELSE monthly_revenue_apt

DeflatorMatchingBurn(monthly_revenue_apt, deflator_balance, staked_tokens, stake_weight) ==
    IF staked_tokens = 0 THEN Min(monthly_revenue_apt, deflator_balance)
    ELSE IF stake_weight >= One
         THEN IF deflator_balance > 0
              THEN Min(monthly_revenue_apt, deflator_balance) ELSE 0
    ELSE Min(monthly_revenue_apt, deflator_balance)

\* Line 172: the expression statement "circulating_supply - tokens_to_burn"
\* is evaluated and dropped; circulating_supply keeps its value.
CirculatingAfterBurn(circulating_supply, tokens_to_burn) == circulating_supply

\* Lines 175-178
AnnualYieldPct(staker_alloc, staked_tokens) ==
    IF staked_tokens > 0 THEN Ratio(staker_alloc * 12, staked_tokens) ELSE 0

\* Lines 180-195: the target staked fraction.
\* Variant without the low-yield unstaking threshold.
TargetStakePctBug(mode, total_liquid_tokens, annual_yield_pct, liquid_stake_pct) ==
    IF mode = Auto /\ total_liquid_tokens > 0
    THEN Min(annual_yield_pct * YieldFactor, One)
    ELSE IF liquid_stake_pct # None /\ liquid_stake_pct # 0
         THEN liquid_stake_pct ELSE 0

TargetStakePct(mode, total_liquid_tokens, annual_yield_pct, liquid_stake_pct) ==
    IF mode = Auto /\ total_liquid_tokens > 0
    THEN IF annual_yield_pct < YieldThreshold THEN 0
         ELSE Min(annual_yield_pct * YieldFactor, One)
    ELSE IF liquid_stake_pct # None /\ liquid_stake_pct # 0
         THEN liquid_stake_pct ELSE 0

\* Line 198
NewStakedTokens(circulating_supply, target_stake_pct, investor_staked_tokens) ==
    Scale(circulating_supply, target_stake_pct) + investor_staked_tokens

\* ------------------------------------------------------------------- state

VARIABLES
    pc,                      \* where the run stands
    mode, investor_alloc, stake_duration, liquid_stake_pct,   \* the arguments
    investor_tokens, dev_tokens, initial_price,
    circulating_supply, deflator_balance, liquid_investor_tokens,
    investor_staked_tokens, staked_tokens,
    month, monthly_revenue_usd,
    mm_usdc_balance, k_constant, current_price,
    new_usdc_balance, new_apt_balance, monthly_revenue_apt,
    total_liquid_tokens, stake_weight, staker_alloc,
    revenue_apt_to_burn, deflator_matching_burn, tokens_to_burn,
    annual_yield_pct, target_stake_pct,
    results

args == <<mode, investor_alloc, stake_duration, liquid_stake_pct>>

alloc_vars == <<investor_tokens, dev_tokens, initial_price>>

token_vars ==
    <<circulating_supply, deflator_balance, liquid_investor_tokens,
      investor_staked_tokens, staked_tokens>>

amm_vars ==
    <<mm_usdc_balance, k_constant, current_price, new_usdc_balance,
      new_apt_balance, monthly_revenue_apt>>

stake_vars ==
    <<total_liquid_tokens, stake_weight, staker_alloc, revenue_apt_to_burn,
      deflator_matching_burn, tokens_to_burn, annual_yield_pct,
      target_stake_pct>>

vars ==
    <<pc, args, alloc_vars, token_vars, month, monthly_revenue_usd, amm_vars,
      stake_vars, results>>

\* Lines 18-44 and 223-226: the sidebar fixes the arguments of the call; in
\* Yield-Based mode liquid_stake_pct is passed as None.  The function's
\* locals are unbound until their first assignment (held as 0 here; the code
\* never reads one before assigning it).
Init ==
    /\ pc = "call"
    /\ mode \in {Manual, Auto}
    /\ investor_alloc \in InvestorAllocations
    /\ stake_duration \in StakeDurations
    /\ liquid_stake_pct \in (IF mode = Manual THEN LiquidStakePcts ELSE {None})
    /\ investor_tokens = 0 /\ dev_tokens = 0 /\ initial_price = 0
    /\ circulating_supply = 0 /\ deflator_balance = 0
    /\ liquid_investor_tokens = 0 /\ investor_staked_tokens = 0
    /\ staked_tokens = 0
    /\ month = 0 /\ monthly_revenue_usd = 0
    /\ mm_usdc_balance = 0 /\ k_constant = 0 /\ current_price = 0
    /\ new_usdc_balance = 0 /\ new_apt_balance = 0 /\ monthly_revenue_apt = 0
    /\ total_liquid_tokens = 0 /\ stake_weight = 0 /\ staker_alloc = 0
    /\ revenue_apt_to_burn = 0 /\ deflator_matching_burn = 0
    /\ tokens_to_burn = 0 /\ annual_yield_pct = 0 /\ target_stake_pct = 0
    /\ results = <<>>

\* Lines 60-85: allocations, initial pricing, initial state, loop entry.
\* FUNDING_AMOUNT / investor_tokens raises ZeroDivisionError when
\* investor_tokens is 0.0.
Setup ==
    /\ pc = "call"
    /\ LET tokens == Scale(TOTAL_SUPPLY, investor_alloc)
           deflator_tokens == Scale(TOTAL_SUPPLY, DeflatorCeiling - investor_alloc)
       IN  /\ investor_tokens' = tokens
           /\ dev_tokens' = Scale(TOTAL_SUPPLY, DEV_ALLOCATION)
           /\ IF tokens = 0
              THEN /\ pc' = "ZeroDivisionError"
                   /\ UNCHANGED <<initial_price, token_vars>>
              ELSE /\ pc' = "revenue"
                   /\ initial_price' = Ratio(FUNDING_AMOUNT, tokens)
                   /\ circulating_supply' = mm_tokens
                   /\ deflator_balance' = deflator_tokens
                   /\ liquid_investor_tokens' = (tokens * 1) \div 3
                   /\ investor_staked_tokens' = (tokens * 2) \div 3
                   /\ staked_tokens' = (tokens * 2) \div 3
    /\ UNCHANGED <<args, month, monthly_revenue_usd, amm_vars, stake_vars, results>>

\* Lines 86-96
Revenue ==
    /\ pc = "revenue"
    /\ monthly_revenue_usd' = MonthlyRevenueUsd(month)
    /\ pc' = "unlock_investor"
    /\ UNCHANGED <<args, alloc_vars, token_vars, month, amm_vars, stake_vars, results>>

\* Lines 98-104
InvestorUnlock ==
    /\ pc = "unlock_investor"
    /\ IF InvestorUnlockFires(month, stake_duration, staked_tokens)
       THEN /\ liquid_investor_tokens' = liquid_investor_tokens + investor_staked_tokens
            /\ circulating_supply' = circulating_supply + investor_staked_tokens
            /\ staked_tokens' = staked_tokens - investor_staked_tokens
            /\ investor_staked_tokens' = 0
            /\ UNCHANGED deflator_balance
       ELSE UNCHANGED token_vars
    /\ pc' = "unlock_dev"
    /\ UNCHANGED <<args, alloc_vars, month, monthly_revenue_usd, amm_vars, stake_vars, results>>

\* Lines 106-109
DevUnlock ==
    /\ pc = "unlock_dev"
    /\ IF DevUnlockFires(month)
       THEN /\ circulating_supply' = circulating_supply + dev_tokens
            /\ dev_tokens' = 0
       ELSE UNCHANGED <<circulating_supply, dev_tokens>>
    /\ pc' = "swap"
    /\ UNCHANGED <<args, investor_tokens, initial_price, deflator_balance,
                   liquid_investor_tokens, investor_staked_tokens, staked_tokens,
                   month, monthly_revenue_usd, amm_vars, stake_vars, results>>

\* Lines 111-141: the pool is seeded afresh, priced, and the month's revenue
\* is swapped into it.
Swap ==
    /\ pc = "swap"
    /\ LET seed == MmUsdcSeed
           k == circulating_supply * seed
           pre_price == IF circulating_supply > 0
                        THEN Ratio(seed, circulating_supply)
                        ELSE initial_price
       IN  /\ k_constant' = k
           /\ IF SwapExecutes(monthly_revenue_usd)
              THEN /\ new_usdc_balance' = seed + monthly_revenue_usd
                   /\ new_apt_balance' = k \div new_usdc_balance'
                   /\ monthly_revenue_apt' = circulating_supply - new_apt_balance'
                   /\ mm_usdc_balance' = new_usdc_balance'
                   /\ circulating_supply' = new_apt_balance'
                   /\ current_price' =
                          PostSwapPrice(mm_usdc_balance', circulating_supply', pre_price)
              ELSE /\ monthly_revenue_apt' = 0
                   /\ mm_usdc_balance' = seed
                   /\ current_price' = pre_price
                   /\ UNCHANGED <<new_usdc_balance, new_apt_balance, circulating_supply>>
    /\ pc' = "stake"
    /\ UNCHANGED <<args, alloc_vars, deflator_balance, liquid_investor_tokens,
                   investor_staked_tokens, staked_tokens, month,
                   monthly_revenue_usd, stake_vars, results>>

\* Lines 143-218 and the loop header of line 85: staking split, burn, yield,
\* target stake, the month's record, and on to the next month or the return
\* of line 220.
Stake ==
    /\ pc = "stake"
    /\ total_liquid_tokens' = circulating_supply - staked_tokens
    /\ stake_weight' = StakeWeight(staked_tokens)
    /\ staker_alloc' = Scale(monthly_revenue_apt, stake_weight')
    /\ revenue_apt_to_burn' =
           RevenueAptToBurn(monthly_revenue_apt, staked_tokens, stake_weight', staker_alloc')
    /\ deflator_matching_burn' =
           DeflatorMatchingBurn(monthly_revenue_apt, deflator_balance, staked_tokens, stake_weight')
    /\ deflator_balance' = deflator_balance - deflator_matching_burn'
    /\ tokens_to_burn' = deflator_matching_burn' + revenue_apt_to_burn'
    /\ circulating_supply' = CirculatingAfterBurn(circulating_supply, tokens_to_burn')
    /\ annual_yield_pct' = AnnualYieldPct(staker_alloc', staked_tokens)
    /\ target_stake_pct' =
           TargetStakePct(mode, total_liquid_tokens', annual_yield_pct', liquid_stake_pct)
    /\ staked_tokens' =
           NewStakedTokens(circulating_supply', target_stake_pct', investor_staked_tokens)
    /\ results' = Append(results,
           [Month |-> month + 1,
            Price |-> current_price,
            Circulating_Supply |-> circulating_supply',
            Staked_Tokens |-> staked_tokens',
            Monthly_Revenue_USD |-> monthly_revenue_usd,
            Monthly_Revenue_APT |-> monthly_revenue_apt,
            Tokens_Burned |-> tokens_to_burn',
            Deflator_Balance |-> deflator_balance',
            Annual_Yield_Pct |-> annual_yield_pct'])
    /\ IF month + 1 < months
       THEN month' = month + 1 /\ pc' = "revenue"
       ELSE month' = month /\ pc' = "return"
    /\ UNCHANGED <<args, alloc_vars, liquid_investor_tokens, investor_staked_tokens,
                   monthly_revenue_usd, amm_vars>>

Next == Setup \/ Revenue \/ InvestorUnlock \/ DevUnlock \/ Swap \/ Stake

Spec == Init /\ [][Next]_vars


\* ------------------------------------------------------ derived quantities

\* The latest month's record.
Latest == results[Len(results)]

\* A month has just been recorded: the loop is about to start the next
\* month, or the function is about to return.
Recorded == pc \in {"revenue", "return"} /\ results # <<>>

\* Cumulative burn: the prefix sum over Tokens_Burned of the records.
RECURSIVE BurnedUpTo(_)
BurnedUpTo(n) == IF n = 0 THEN 0 ELSE BurnedUpTo(n - 1) + results[n].Tokens_Burned

\* The AMM pool's token reserve after the month's swap (lines 131, 136).
pool_token_reserve == new_apt_balance

\* The loop month at which the investor lock ends: stake_duration * 12.
LockBoundary == (stake_duration * 12) \div One

\* investor_tokens * 2/3 (line 82)
TwoThirdsOfAllocation == (investor_tokens * 2) \div 3

\* ------------------------------------------------------------------ claims

\* C1: deflator_balance never increases and is never negative, and the
\* month's burn step lowers it by exactly
\* min(Monthly_Revenue_APT, deflator_balance before the month), in whichever
\* staking branch; no other step of the loop touches it.
C1_DeflatorMatchedBurn ==
    /\ [](deflator_balance >= 0)
    /\ [][/\ deflator_balance' <= deflator_balance \/ pc = "call"
          /\ pc = "stake" =>
                deflator_balance' =
                    deflator_balance - Min(monthly_revenue_apt, deflator_balance)
          /\ pc \notin {"call", "stake"} => deflator_balance' = deflator_balance]_vars

\* C1 witness: a month with stakers present (partial-staking branch) in which
\* the deflator reserve is smaller than the month's revenue tokens and is
\* burned down to zero.
C1_Witness ==
    /\ Recorded
    /\ stake_weight > 0 /\ stake_weight < One
    /\ deflator_matching_burn > 0
    /\ deflator_matching_burn < monthly_revenue_apt
    /\ deflator_balance = 0

\* C2: the Circulating_Supply recorded for a month is the post-swap
\* circulating supply minus revenue_apt_to_burn, and the next month starts
\* from that value.
C2_RevenueBurnLeavesCirculation ==
    Recorded =>
        /\ Latest.Circulating_Supply = new_apt_balance - revenue_apt_to_burn
        /\ circulating_supply = new_apt_balance - revenue_apt_to_burn

\* C3: conservation at the end of every month: circulating + staked +
\* investor-locked + dev-locked + pool reserve = initial supply minus all
\* tokens burned so far.
C3_Conservation ==
    Recorded =>
        circulating_supply + staked_tokens + investor_staked_tokens
            + dev_tokens + pool_token_reserve
        = TOTAL_SUPPLY - BurnedUpTo(Len(results))

\* C4: for every setting the controls allow the call raises no error and
\* returns exactly 48 records with Month = 1, 2, ..., 48 in order.
C4_RunCompletes ==
    /\ pc # "ZeroDivisionError"
    /\ pc = "return" =>
          /\ Len(results) = months
          /\ \A i \in 1..Len(results) : results[i].Month = i

\* C5: for a lock boundary B = stake_duration * 12 below 48,
\* investor_staked_tokens is two-thirds of the investor allocation in every
\* loop month before B; the unlock step of loop month B sets it to 0, adds
\* the full amount to circulating_supply and takes it from staked_tokens;
\* in every later month it stays 0 and the unlock step moves nothing.
C5_InvestorUnlockOnce ==
    [][LockBoundary < months =>
        /\ pc = "unlock_investor" /\ month < LockBoundary =>
              /\ investor_staked_tokens = TwoThirdsOfAllocation
              /\ UNCHANGED <<investor_staked_tokens, circulating_supply, staked_tokens>>
        /\ pc = "unlock_investor" /\ month = LockBoundary =>
              /\ investor_staked_tokens = TwoThirdsOfAllocation
              /\ investor_staked_tokens' = 0
              /\ circulating_supply' = circulating_supply + TwoThirdsOfAllocation
              /\ staked_tokens' = staked_tokens - TwoThirdsOfAllocation
        /\ pc = "unlock_investor" /\ month > LockBoundary =>
              /\ investor_staked_tokens = 0
              /\ investor_staked_tokens' = 0
              /\ UNCHANGED <<circulating_supply, staked_tokens>>
        /\ pc \notin {"call", "unlock_investor"} =>
              UNCHANGED investor_staked_tokens]_vars

\* C5 witness: the unlock step of loop month B has just run and moved a
\* positive locked balance into circulation.
C5_Witness ==
    /\ LockBoundary < months
    /\ pc = "unlock_dev" /\ month = LockBoundary
    /\ TwoThirdsOfAllocation > 0
    /\ investor_staked_tokens = 0
    /\ liquid_investor_tokens = (investor_tokens * 1) \div 3 + TwoThirdsOfAllocation

\* C6: dev_tokens is 10% of total supply in every loop month before month
\* 36; the dev unlock step of month 36 sets it to 0 and raises
\* circulating_supply by exactly that amount; in every later month
\* dev_tokens stays 0 and the step adds nothing to circulating_supply.
C6_DevUnlockOnce ==
    [][/\ pc = "unlock_dev" /\ month < DevUnlockMonth =>
              /\ dev_tokens = Scale(TOTAL_SUPPLY, DEV_ALLOCATION)
              /\ UNCHANGED <<dev_tokens, circulating_supply>>
       /\ pc = "unlock_dev" /\ month = DevUnlockMonth =>
              /\ dev_tokens = Scale(TOTAL_SUPPLY, DEV_ALLOCATION)
              /\ dev_tokens' = 0
              /\ circulating_supply' =
                     circulating_supply + Scale(TOTAL_SUPPLY, DEV_ALLOCATION)
       /\ pc = "unlock_dev" /\ month > DevUnlockMonth =>
              /\ dev_tokens = 0
              /\ dev_tokens' = 0
              /\ UNCHANGED circulating_supply
       /\ pc \notin {"call", "unlock_dev"} => UNCHANGED dev_tokens]_vars

\* C6 witness: the dev unlock step of month 36 has just run.
C6_Witness ==
    /\ pc = "swap" /\ month = DevUnlockMonth
    /\ dev_tokens = 0
    /\ circulating_supply > Scale(TOTAL_SUPPLY, DEV_ALLOCATION)

\* C7: in every month in which the swap executes, the recorded Price is the
\* post-swap USD reserve divided by the post-swap token reserve,
\* new_usd / new_token with new_token = k / new_usd.
C7_PriceIsPostSwapReserveRatio ==
    Recorded /\ SwapExecutes(monthly_revenue_usd) =>
        /\ new_apt_balance = k_constant \div new_usdc_balance
        /\ Latest.Price = Ratio(new_usdc_balance, new_apt_balance)

\* The target fraction the claim C8 states: 0 below the threshold, otherwise
\* min(annual_yield * 2, 1.0).
YieldTarget(yield) ==
    IF yield < YieldThreshold THEN 0 ELSE Min(yield * YieldFactor, One)

PriceOfMonth(m) == Ratio(MmUsdcSeed + MonthlyRevenueUsd(m), mm_tokens)

C10_ZeroStakingAbsorbing ==
    [][mode = Auto /\ results # <<>> /\ Latest.Staked_Tokens = 0 =>
        /\ staked_tokens = 0
        /\ pc = "stake" =>
              /\ stake_weight' = 0
              /\ staker_alloc' = 0
              /\ annual_yield_pct' = 0
              /\ target_stake_pct' = 0
              /\ staked_tokens' = 0
              /\ revenue_apt_to_burn' = monthly_revenue_apt]_vars

\* C10 witness: a Yield-Based run in which staking had been positive, fell to
\* zero, and a later month with revenue has been processed at zero stake.
C10_Witness ==
    /\ Recorded /\ mode = Auto /\ Len(results) >= 2
    /\ results[1].Staked_Tokens > 0
    /\ results[Len(results) - 1].Staked_Tokens = 0
    /\ Latest.Staked_Tokens = 0
    /\ monthly_revenue_apt > 0
    /\ revenue_apt_to_burn = monthly_revenue_apt

=============================================================================
